---- MODULE Spec2Model ----
(***************************************************************************)
(* Model of features/atcryptoauth/mbedtls_atca_engine.cpp: the opaque-key  *)
(* adapter that lets Mbed TLS delegate ECDSA sign/verify to an ATCA secure *)
(* element, the conversion between the raw (R,S) signature of the device   *)
(* and the ASN.1 DER signature of Mbed TLS, and the setup/free glue.       *)
(*                                                                         *)
(* Bytes are naturals 0..255.  A buffer is a sequence of bytes; a pointer  *)
(* into a buffer is the number of bytes before it (p = 0 is the start).    *)
(* An mbedtls_mpi is its magnitude: the big-endian byte string without     *)
(* leading zero bytes (<<>> is the value 0, the value after mpi_init).     *)
(***************************************************************************)
EXTENDS Integers, Sequences, FiniteSets

(***************************************************************************)
(* Bounds of the model.                                                    *)
(***************************************************************************)
\* Width in bytes of one raw half (R or S); 32 in the code (sizeof(rs)/2).
FieldLen == 2
\* Longest run of extra bytes put after, or inside, an encoding.
MaxTrail == 2
\* Number of ATCAKey objects the key store hands out in one run.
MaxKeys == 2

(***************************************************************************)
(* Program constants.                                                      *)
(***************************************************************************)
MBEDTLS_ERR_ECP_BAD_INPUT_DATA == -20352
MBEDTLS_ERR_ECP_BUFFER_TOO_SMALL == -20224
MBEDTLS_ERR_ECP_SIG_LEN_MISMATCH == -19456
MBEDTLS_ERR_ASN1_OUT_OF_DATA == -96
MBEDTLS_ERR_ASN1_UNEXPECTED_TAG == -98
MBEDTLS_ERR_ASN1_INVALID_LENGTH == -100
MBEDTLS_ERR_ASN1_LENGTH_MISMATCH == -102
MBEDTLS_ERR_MPI_BUFFER_TOO_SMALL == -8
MBEDTLS_ERR_MPI_ALLOC_FAILED == -16
\* MBEDTLS_ASN1_CONSTRUCTED | MBEDTLS_ASN1_SEQUENCE = 0x20 | 0x10
ASN1_SEQUENCE_TAG == 48
\* MBEDTLS_ASN1_INTEGER
ASN1_INTEGER_TAG == 2
\* The size handed to ecdsa_signature_to_asn1 by atca_sign_func.
SigBufSize == 100
\* ATCA_ECC_SIG_LEN, the size of rs[]: two halves.
ATCA_ECC_SIG_LEN == 2 * FieldLen

(***************************************************************************)
(* Byte strings.                                                           *)
(***************************************************************************)
Zeros(n) == [i \in 1..n |-> 0]

\* An output buffer nothing was written to (its content is whatever the
\* caller's memory held); no written buffer is empty, as FieldLen >= 1.
Unwritten == <<>>

RECURSIVE StripLeadingZeros(_)
StripLeadingZeros(b) ==
    IF b = <<>> THEN <<>>
    ELSE IF Head(b) = 0 THEN StripLeadingZeros(Tail(b))
    ELSE b

(***************************************************************************)
(* Mbed TLS bignum and ASN.1 primitives the engine calls.  An operator     *)
(* that needs an intermediate result more than once takes it as a          *)
(* parameter of a second operator (named ...After or ...With).             *)
(***************************************************************************)
\* mbedtls_mpi_read_binary(X, buf, buflen): X := the value of buf, unless
\* the limbs cannot be allocated; then X keeps its value X0.
mbedtls_mpi_read_binary(X0, buf, alloc) ==
    IF alloc THEN [ret |-> 0, X |-> StripLeadingZeros(buf)]
    ELSE [ret |-> MBEDTLS_ERR_MPI_ALLOC_FAILED, X |-> X0]

\* mbedtls_mpi_size(X): bytes needed for the magnitude of X.
mbedtls_mpi_size(X) == Len(X)

\* mbedtls_mpi_write_binary(X, buf, buflen): right-aligned, zero-padded.
mbedtls_mpi_write_binary(X, buflen) ==
    IF buflen < mbedtls_mpi_size(X)
    THEN [ret |-> MBEDTLS_ERR_MPI_BUFFER_TOO_SMALL, buf |-> Unwritten]
    ELSE [ret |-> 0, buf |-> Zeros(buflen - mbedtls_mpi_size(X)) \o X]

\* The end of mbedtls_asn1_get_len: the length read must not pass the end.
LengthWithin(len, q, end) ==
    IF len > end - q
    THEN [ret |-> MBEDTLS_ERR_ASN1_OUT_OF_DATA, p |-> q, len |-> len]
    ELSE [ret |-> 0, p |-> q, len |-> len]

\* The long form of a length, n octets after the first.  Buffers of the
\* model are shorter than 256 bytes, so a length with a non-zero high octet
\* exceeds what is left whatever its value: it is represented by end + 1.
LongLength(sig, p, n, end) ==
    IF {sig[p + 1 + i] : i \in 1..(n - 1)} \subseteq {0}
    THEN sig[p + 1 + n]
    ELSE end + 1

\* mbedtls_asn1_get_len(&p, end, &len).
mbedtls_asn1_get_len(sig, p, end) ==
    IF end - p < 1
    THEN [ret |-> MBEDTLS_ERR_ASN1_OUT_OF_DATA, p |-> p, len |-> 0]
    ELSE IF sig[p + 1] < 128
    THEN LengthWithin(sig[p + 1], p + 1, end)
    ELSE IF (sig[p + 1] - 128) \notin 1..4
    THEN [ret |-> MBEDTLS_ERR_ASN1_INVALID_LENGTH, p |-> p, len |-> 0]
    ELSE IF end - p < (sig[p + 1] - 128) + 1
    THEN [ret |-> MBEDTLS_ERR_ASN1_OUT_OF_DATA, p |-> p, len |-> 0]
    ELSE LengthWithin(LongLength(sig, p, sig[p + 1] - 128, end),
                      p + 1 + (sig[p + 1] - 128), end)

\* mbedtls_asn1_get_tag(&p, end, &len, tag).
mbedtls_asn1_get_tag(sig, p, end, tag) ==
    IF end - p < 1
    THEN [ret |-> MBEDTLS_ERR_ASN1_OUT_OF_DATA, p |-> p, len |-> 0]
    ELSE IF sig[p + 1] # tag
    THEN [ret |-> MBEDTLS_ERR_ASN1_UNEXPECTED_TAG, p |-> p, len |-> 0]
    ELSE mbedtls_asn1_get_len(sig, p + 1, end)

\* The end of mbedtls_asn1_get_mpi: the result rd of the import, with p
\* moved past the content whether the import succeeded or not.
MpiAfterRead(rd, q) == [ret |-> rd.ret, p |-> q, X |-> rd.X]

\* mbedtls_asn1_get_mpi after its mbedtls_asn1_get_tag returned t.
MpiAfterTag(sig, t, alloc) ==
    IF t.ret # 0 THEN [ret |-> t.ret, p |-> t.p, X |-> <<>>]
    ELSE MpiAfterRead(
             mbedtls_mpi_read_binary(<<>>, SubSeq(sig, t.p + 1, t.p + t.len), alloc),
             t.p + t.len)

\* mbedtls_asn1_get_mpi(&p, end, X): an INTEGER field read as a magnitude.
mbedtls_asn1_get_mpi(sig, p, end, alloc) ==
    MpiAfterTag(sig, mbedtls_asn1_get_tag(sig, p, end, ASN1_INTEGER_TAG), alloc)

\* mbedtls_asn1_write_len: the length octets.
mbedtls_asn1_write_len(len) ==
    IF len < 128 THEN <<len>> ELSE <<129, len>>

\* The content octets of a non-negative INTEGER: the magnitude, one 0x00
\* for the value 0, and 0x00 in front when the top bit is set.
IntegerContent(X) ==
    IF X = <<>> THEN <<0>>
    ELSE IF Head(X) >= 128 THEN <<0>> \o X
    ELSE X

\* An INTEGER field with the given content octets.
Asn1Integer(content) ==
    <<ASN1_INTEGER_TAG>> \o mbedtls_asn1_write_len(Len(content)) \o content

\* mbedtls_asn1_write_mpi: tag, length and content of X.
mbedtls_asn1_write_mpi(X) == Asn1Integer(IntegerContent(X))

\* A SEQUENCE around a body.
Asn1Sequence(body) ==
    <<ASN1_SEQUENCE_TAG>> \o mbedtls_asn1_write_len(Len(body)) \o body

\* The end of ecdsa_signature_to_asn1: out is copied to sig when it fits in
\* ssize bytes; otherwise sig and slen are not set.
CopyOut(out, ssize) ==
    IF Len(out) > ssize
    THEN [ret |-> MBEDTLS_ERR_ECP_BUFFER_TOO_SMALL, sig |-> Unwritten, slen |-> 0]
    ELSE [ret |-> 0, sig |-> out, slen |-> Len(out)]

\* ecdsa_signature_to_asn1(r, s, sig, slen, ssize): SEQUENCE { r, s }.
ecdsa_signature_to_asn1(r, s, ssize) ==
    CopyOut(Asn1Sequence(mbedtls_asn1_write_mpi(r) \o mbedtls_asn1_write_mpi(s)), ssize)

(***************************************************************************)
(* mbedtls_ecdsa_asn1_to_signature, step by step.  end is sig + slen.      *)
(***************************************************************************)
\* A fault: the error of mbedtls_asn1_get_tag is returned as it is.
OuterAfterTag_NoErrorBase(t, slen) ==
    IF t.ret # 0 THEN [ret |-> t.ret, p |-> t.p]
    ELSE IF t.p + t.len # slen
    THEN [ret |-> MBEDTLS_ERR_ECP_BAD_INPUT_DATA + MBEDTLS_ERR_ASN1_LENGTH_MISMATCH,
          p |-> t.p]
    ELSE [ret |-> 0, p |-> t.p]

\* A fault: the declared length is not compared with the end of the input.
OuterAfterTag_NoLengthCheck(t, slen) ==
    IF t.ret # 0 THEN [ret |-> t.ret + MBEDTLS_ERR_ECP_BAD_INPUT_DATA, p |-> t.p]
    ELSE [ret |-> 0, p |-> t.p]

\* After mbedtls_asn1_get_tag returned t for the outer SEQUENCE: its error,
\* and the check that the declared length ends exactly at the end.
OuterAfterTag(t, slen) ==
    IF t.ret # 0 THEN [ret |-> t.ret + MBEDTLS_ERR_ECP_BAD_INPUT_DATA, p |-> t.p]
    ELSE IF t.p + t.len # slen
    THEN [ret |-> MBEDTLS_ERR_ECP_BAD_INPUT_DATA + MBEDTLS_ERR_ASN1_LENGTH_MISMATCH,
          p |-> t.p]
    ELSE [ret |-> 0, p |-> t.p]

\* The outer SEQUENCE tag and length.
OuterSequence(sig, slen) ==
    OuterAfterTag(mbedtls_asn1_get_tag(sig, 0, slen, ASN1_SEQUENCE_TAG), slen)

\* The second INTEGER, s, after r was parsed as a.
SecondInteger(a, b) ==
    IF b.ret # 0
    THEN [ret |-> b.ret + MBEDTLS_ERR_ECP_BAD_INPUT_DATA, p |-> b.p, r |-> a.X, s |-> b.X]
    ELSE [ret |-> 0, p |-> b.p, r |-> a.X, s |-> b.X]

\* After the first INTEGER was parsed as a; s is not parsed when r failed.
IntegersAfterFirst(sig, a, end, alloc) ==
    IF a.ret # 0
    THEN [ret |-> a.ret + MBEDTLS_ERR_ECP_BAD_INPUT_DATA, p |-> a.p, r |-> a.X, s |-> <<>>]
    ELSE SecondInteger(a, mbedtls_asn1_get_mpi(sig, a.p, end, alloc))

\* The two INTEGER fields, r then s.
ParseIntegers(sig, p, end, alloc) ==
    IntegersAfterFirst(sig, mbedtls_asn1_get_mpi(sig, p, end, alloc), end, alloc)

\* A fault: r and s are written to each other's buffer.
WriteBoth_Swapped(wr, ws) ==
    IF ws.ret # 0
    THEN [ret |-> ws.ret + MBEDTLS_ERR_ECP_BAD_INPUT_DATA, R |-> Unwritten, S |-> Unwritten]
    ELSE IF wr.ret # 0
    THEN [ret |-> wr.ret + MBEDTLS_ERR_ECP_BAD_INPUT_DATA, R |-> ws.buf, S |-> Unwritten]
    ELSE [ret |-> 0, R |-> ws.buf, S |-> wr.buf]

\* A fault: the result of mbedtls_mpi_write_binary is not looked at.
WriteBoth_Unchecked(wr, ws) ==
    [ret |-> 0, R |-> wr.buf, S |-> ws.buf]

\* r written with result wr, then s with result ws; S is not written when
\* r did not fit.
WriteBoth(wr, ws) ==
    IF wr.ret # 0
    THEN [ret |-> wr.ret + MBEDTLS_ERR_ECP_BAD_INPUT_DATA, R |-> Unwritten, S |-> Unwritten]
    ELSE IF ws.ret # 0
    THEN [ret |-> ws.ret + MBEDTLS_ERR_ECP_BAD_INPUT_DATA, R |-> wr.buf, S |-> Unwritten]
    ELSE [ret |-> 0, R |-> wr.buf, S |-> ws.buf]

\* r into R[0..R_len), then s into S[0..S_len).
WriteIntegers(r, s, R_len, S_len) ==
    WriteBoth(mbedtls_mpi_write_binary(r, R_len), mbedtls_mpi_write_binary(s, S_len))

\* Bytes left between the second INTEGER and the end; R and S are written.
TrailingCheck(w, p, end) ==
    IF p # end THEN [w EXCEPT !.ret = MBEDTLS_ERR_ECP_SIG_LEN_MISMATCH] ELSE w

\* After both integers were written with result w.
AfterWrite(w, p, end) ==
    IF w.ret # 0 THEN w ELSE TrailingCheck(w, p, end)

\* After the two integers were parsed with result f.
AfterParse(f, end, R_len, S_len) ==
    IF f.ret # 0 THEN [ret |-> f.ret, R |-> Unwritten, S |-> Unwritten]
    ELSE AfterWrite(WriteIntegers(f.r, f.s, R_len, S_len), f.p, end)

\* After the outer SEQUENCE was read with result o.
AfterOuter(sig, o, end, R_len, S_len, alloc) ==
    IF o.ret # 0 THEN [ret |-> o.ret, R |-> Unwritten, S |-> Unwritten]
    ELSE AfterParse(ParseIntegers(sig, o.p, end, alloc), end, R_len, S_len)

\* The whole function: its return value and what it left in R and S.
mbedtls_ecdsa_asn1_to_signature(sig, slen, R_len, S_len, alloc) ==
    AfterOuter(sig, OuterSequence(sig, slen), slen, R_len, S_len, alloc)

(***************************************************************************)
(* atca_sign_func, the conversion of the device's raw signature: r and s   *)
(* are imported from the two halves of rs[0..rs_len) and encoded.  The     *)
(* return values of the two imports are not looked at.                     *)
(***************************************************************************)
ImportAndEncode(rs, rs_len, alloc) ==
    ecdsa_signature_to_asn1(
        mbedtls_mpi_read_binary(<<>>, SubSeq(rs, 1, rs_len \div 2), alloc).X,
        mbedtls_mpi_read_binary(<<>>, SubSeq(rs, (rs_len \div 2) + 1,
                                             (rs_len \div 2) + (rs_len \div 2)), alloc).X,
        SigBufSize)

(***************************************************************************)
(* The adapter: atca_sign_func and atca_verify_func.  The key holder       *)
(* (ATCAKey::Sign, ATCAKey::Verify) is outside the engine: what it returns *)
(* is an input of the call.  An outcome records the value returned, the    *)
(* calls made on the way and the buffers as the call left them.            *)
(***************************************************************************)
MBEDTLS_MD_SHA256 == "MBEDTLS_MD_SHA256"
HashAlgs == {MBEDTLS_MD_SHA256, "MBEDTLS_MD_SHA1"}

ATCA_ERR_NO_ERROR == "ATCA_ERR_NO_ERROR"
\* ATCAKey::Verify: the signature does not match the hash.
HolderMismatch == "verify mismatch"
\* ATCAKey::Sign or ATCAKey::Verify: any other error of the device.
HolderFault == "device fault"
HolderErrors == {ATCA_ERR_NO_ERROR, HolderMismatch, HolderFault}

NoOutcome ==
    [ret |-> 0, signCalls |-> 0, encodeCalls |-> 0, decodeCalls |-> 0, verifyCalls |-> 0,
     encodeRet |-> 0, decodeRet |-> 0, sig |-> Unwritten, sig_len |-> 0,
     rs |-> <<Unwritten, Unwritten>>, rsVerified |-> Unwritten]

\* atca_sign_func after key->Sign succeeded and rs was converted with
\* result e: the result of the conversion is not looked at, and the value
\* returned is decided by err alone.
SignAfterEncode(err, e) ==
    [NoOutcome EXCEPT !.ret = IF err = ATCA_ERR_NO_ERROR THEN 0 ELSE 1,
                      !.signCalls = 1, !.encodeCalls = 1, !.encodeRet = e.ret,
                      !.sig = e.sig, !.sig_len = e.slen]

\* A fault: the hash algorithm is not looked at.
atca_sign_func_NoHashCheck(md_alg, err, rs, rs_len, alloc) ==
    IF err # ATCA_ERR_NO_ERROR
    THEN [NoOutcome EXCEPT !.ret = -1, !.signCalls = 1]
    ELSE SignAfterEncode(err, ImportAndEncode(rs, rs_len, alloc))

\* atca_sign_func(ctx, md_alg, hash, hash_len, sig, sig_len, f_rng, p_rng);
\* key->Sign returns err and, when it succeeds, rs[0..rs_len).
atca_sign_func(md_alg, err, rs, rs_len, alloc) ==
    IF md_alg # MBEDTLS_MD_SHA256
    THEN [NoOutcome EXCEPT !.ret = -1]
    ELSE IF err # ATCA_ERR_NO_ERROR
    THEN [NoOutcome EXCEPT !.ret = -1, !.signCalls = 1]
    ELSE SignAfterEncode(err, ImportAndEncode(rs, rs_len, alloc))

\* A fault: the result of the decoder is not looked at.
VerifyAfterDecode_Unchecked(d, err) ==
    IF err # ATCA_ERR_NO_ERROR
    THEN [NoOutcome EXCEPT !.ret = -1, !.decodeCalls = 1, !.decodeRet = d.ret,
                           !.rs = <<d.R, d.S>>, !.verifyCalls = 1, !.rsVerified = d.R \o d.S]
    ELSE [NoOutcome EXCEPT !.ret = 0, !.decodeCalls = 1, !.decodeRet = d.ret,
                           !.rs = <<d.R, d.S>>, !.verifyCalls = 1, !.rsVerified = d.R \o d.S]

\* A fault: only a mismatch reported by the key holder fails the call.
VerifyAfterDecode_MismatchOnly(d, err) ==
    IF d.ret # 0
    THEN [NoOutcome EXCEPT !.ret = -1, !.decodeCalls = 1, !.decodeRet = d.ret,
                           !.rs = <<d.R, d.S>>]
    ELSE IF err = HolderMismatch
    THEN [NoOutcome EXCEPT !.ret = -1, !.decodeCalls = 1, !.decodeRet = d.ret,
                           !.rs = <<d.R, d.S>>, !.verifyCalls = 1, !.rsVerified = d.R \o d.S]
    ELSE [NoOutcome EXCEPT !.ret = 0, !.decodeCalls = 1, !.decodeRet = d.ret,
                           !.rs = <<d.R, d.S>>, !.verifyCalls = 1, !.rsVerified = d.R \o d.S]

\* atca_verify_func after the decoder returned d, having written d.R and
\* d.S into the halves of rs; key->Verify(rs, sizeof(rs), ...) returns err.
VerifyAfterDecode(d, err) ==
    IF d.ret # 0
    THEN [NoOutcome EXCEPT !.ret = -1, !.decodeCalls = 1, !.decodeRet = d.ret,
                           !.rs = <<d.R, d.S>>]
    ELSE IF err # ATCA_ERR_NO_ERROR
    THEN [NoOutcome EXCEPT !.ret = -1, !.decodeCalls = 1, !.decodeRet = d.ret,
                           !.rs = <<d.R, d.S>>, !.verifyCalls = 1, !.rsVerified = d.R \o d.S]
    ELSE [NoOutcome EXCEPT !.ret = 0, !.decodeCalls = 1, !.decodeRet = d.ret,
                           !.rs = <<d.R, d.S>>, !.verifyCalls = 1, !.rsVerified = d.R \o d.S]

\* atca_verify_func(ctx, md_alg, hash, hash_len, sig, sig_len).
atca_verify_func(md_alg, sig, sig_len, err, alloc) ==
    IF md_alg # MBEDTLS_MD_SHA256
    THEN [NoOutcome EXCEPT !.ret = -1]
    ELSE VerifyAfterDecode(
             mbedtls_ecdsa_asn1_to_signature(sig, sig_len, ATCA_ECC_SIG_LEN \div 2,
                                             ATCA_ECC_SIG_LEN \div 2, alloc),
             err)

(***************************************************************************)
(* The binding: mbedtls_atca_pk_setup and atca_ctx_free.                   *)
(***************************************************************************)
\* A null pointer: no mbedtls_pk_context, no ATCAKey.
NULL == 0
\* The mbedtls_pk_context objects of the application.
Contexts == {1, 2}
\* Key identifiers; the device holds a key for the provisioned ones only.
KeyIds == {"slot0", "slot1"}
Provisioned == {"slot0"}
KeyObjects == 1..MaxKeys

\* ATCA::GetKeyToken(keyId, err): a new ATCAKey (fresh) for a key the
\* device holds; otherwise NULL, with the error left in err.
GetKeyToken(keyId, fresh) ==
    IF keyId \in Provisioned
    THEN [key |-> fresh, err |-> ATCA_ERR_NO_ERROR]
    ELSE [key |-> NULL, err |-> HolderFault]

\* mbedtls_atca_pk_setup after GetKeyToken returned tok: err is not looked
\* at, and the key, NULL or not, is installed in a context that is there.
SetupAfterToken(ctx, tok) ==
    IF ctx = NULL
    THEN [ret |-> -1, install |-> FALSE, key |-> tok.key, err |-> tok.err]
    ELSE [ret |-> 0, install |-> TRUE, key |-> tok.key, err |-> tok.err]

\* mbedtls_atca_pk_setup(ctx, keyId); atca is ATCA::GetInstance() # NULL.
mbedtls_atca_pk_setup(ctx, keyId, atca, fresh) ==
    IF ~atca
    THEN [ret |-> -1, install |-> FALSE, key |-> NULL, err |-> ATCA_ERR_NO_ERROR]
    ELSE SetupAfterToken(ctx, GetKeyToken(keyId, fresh))

\* atca_ctx_free(ctx): delete key.  Deleting NULL does nothing; deleting an
\* object a second time is recorded as "twice".
atca_ctx_free(ks, key) ==
    IF key = NULL THEN ks
    ELSE [ks EXCEPT ![key] = IF @ = "live" THEN "deleted" ELSE "twice"]

(***************************************************************************)
(* State.                                                                  *)
(***************************************************************************)
VARIABLES
    pk_ctx,   \* per mbedtls_pk_context: ctx->pk_ctx, an ATCAKey (0 is NULL)
    pk_info,  \* per mbedtls_pk_context: ctx->pk_info
    keys,     \* per ATCAKey object of the key store: its life
    call,     \* the last call into the engine: its arguments and its outcome
    raw,      \* codec runs: the raw signature (R, S) the device produced
    enc,      \* codec runs: its encoding (<<>> before it is encoded)
    dkind,    \* codec runs: how the decoder's input was derived from enc
    darg,     \* codec runs: the parameter of that derivation
    din,      \* codec runs: the decoder's input
    dout      \* codec runs: what the decoder returned and wrote

vars == <<pk_ctx, pk_info, keys, call, raw, enc, dkind, darg, din, dout>>
engineVars == <<pk_ctx, pk_info, keys, call>>
codecVars == <<raw, enc, dkind, darg, din, dout>>

(***************************************************************************)
(* Codec runs: one raw signature is encoded as atca_sign_func encodes it,  *)
(* and the encoding, or an input derived from it, is decoded as            *)
(* atca_verify_func decodes it (R_len = S_len = sizeof(rs)/2).  The heap   *)
(* serves every allocation of a codec run; a failing allocation is an      *)
(* input of the sign and verify calls of the engine runs below.            *)
(***************************************************************************)
\* Byte values of the raw halves: zero, a small value, the largest value
\* with the top bit clear, and values with the top bit set.
RawBytes == {0, 1, 127, 128, 255}
RawHalves == [1..FieldLen -> RawBytes]
RawSignatures == [R : RawHalves, S : RawHalves]

\* Bytes appended to, or put inside, an encoding.
TrailBytes == {0, 48}
Trails == UNION {[1..n -> TrailBytes] : n \in 1..MaxTrail}

\* Content octets for a half h: the minimal ones, the half as it is, and
\* the half behind one more octet (the sign octet 0x00, or a non-zero one
\* that makes the magnitude one byte wider than the half).
FieldForms(h) ==
    { IntegerContent(StripLeadingZeros(h)), h, <<0>> \o h, <<1>> \o h, <<128>> \o h }

NoDecode == [ret |-> 0, R |-> Unwritten, S |-> Unwritten]

InitEngineIdle ==
    /\ pk_ctx = <<>>
    /\ pk_info = <<>>
    /\ keys = <<>>
    /\ call = <<>>

InitCodec ==
    /\ InitEngineIdle
    /\ raw \in RawSignatures
    /\ enc = <<>>
    /\ dkind = "none"
    /\ darg = <<>>
    /\ din = <<>>
    /\ dout = NoDecode

\* atca_sign_func's conversion of rs = R || S.
Encode ==
    /\ enc = <<>>
    /\ enc' = ImportAndEncode(raw.R \o raw.S, ATCA_ECC_SIG_LEN, TRUE).sig
    /\ UNCHANGED <<raw, dkind, darg, din, dout>>
    /\ UNCHANGED engineVars

\* atca_verify_func's call of the decoder on input.
Decode(kind, arg, input) ==
    /\ enc # <<>>
    /\ dkind = "none"
    /\ dkind' = kind
    /\ darg' = arg
    /\ din' = input
    /\ dout' = mbedtls_ecdsa_asn1_to_signature(input, Len(input), FieldLen, FieldLen, TRUE)
    /\ UNCHANGED <<raw, enc>>
    /\ UNCHANGED engineVars

DecodeExact == Decode("exact", <<>>, enc)

DecodeTruncated == \E k \in 1..Len(enc) : Decode("truncated", <<k>>, SubSeq(enc, 1, Len(enc) - k))

DecodeTrailing == \E t \in Trails : Decode("trailing", t, enc \o t)

\* Extra bytes inside the SEQUENCE, after the second INTEGER.
DecodeInnerTrailing ==
    \E t \in Trails :
        Decode("inner", t, Asn1Sequence(SubSeq(enc, 3, Len(enc)) \o t))

\* A well-formed SEQUENCE of two INTEGER fields of chosen content octets.
DecodeWellFormed ==
    \E fr \in FieldForms(raw.R), fs \in FieldForms(raw.S) :
        Decode("wellformed", <<fr, fs>>, Asn1Sequence(Asn1Integer(fr) \o Asn1Integer(fs)))

NextCodec ==
    \/ Encode
    \/ DecodeExact
    \/ DecodeTruncated
    \/ DecodeTrailing
    \/ DecodeInnerTrailing
    \/ DecodeWellFormed

SpecCodec == InitCodec /\ [][NextCodec]_vars

(***************************************************************************)
(* The engine in use: contexts are set up and freed, and signatures are    *)
(* made and verified through the contexts that hold a key.                 *)
(***************************************************************************)
\* Raw signatures the key holder returns: R with its top bit set and S
\* with a leading zero byte; R all 0x01 and S all 0x02.
SampleRaws ==
    { [R |-> [i \in 1..FieldLen |-> 255], S |-> [i \in 1..FieldLen |-> IF i = 1 THEN 0 ELSE 1]],
      [R |-> [i \in 1..FieldLen |-> 1],   S |-> [i \in 1..FieldLen |-> 2]] }

\* The encoding of a raw signature.
EncodingOf(rw) == ImportAndEncode(rw.R \o rw.S, ATCA_ECC_SIG_LEN, TRUE).sig

\* Signatures handed to verify, derived from the encoding e of rw: e, e
\* without its last byte, e followed by a byte, e with a byte inside the
\* SEQUENCE after S, and a well-formed encoding whose S is a byte too wide.
VerifyInputsOf(rw, e) ==
    { e,
      SubSeq(e, 1, Len(e) - 1),
      e \o <<0>>,
      Asn1Sequence(SubSeq(e, 3, Len(e)) \o <<0>>),
      Asn1Sequence(Asn1Integer(IntegerContent(StripLeadingZeros(rw.R)))
                   \o Asn1Integer(<<1>> \o rw.S)) }

VerifyInputs == UNION {VerifyInputsOf(rw, EncodingOf(rw)) : rw \in SampleRaws}

NoCall == [op |-> "none", ctx |-> NULL, in |-> <<>>, out |-> <<>>]

InitCodecIdle ==
    /\ raw = <<>>
    /\ enc = <<>>
    /\ dkind = "none"
    /\ darg = <<>>
    /\ din = <<>>
    /\ dout = NoDecode

Init ==
    /\ pk_ctx = [c \in Contexts |-> NULL]
    /\ pk_info = [c \in Contexts |-> "none"]
    /\ keys = [k \in KeyObjects |-> "none"]
    /\ call = NoCall
    /\ InitCodecIdle

\* The ATCAKey object the next successful GetKeyToken creates.
FreshKey == Cardinality({k \in KeyObjects : keys[k] # "none"}) + 1

\* The effect of mbedtls_atca_pk_setup with outcome o on the state.
ApplySetup(c, keyId, atca, o) ==
    /\ o.key # NULL => o.key \in KeyObjects
    /\ keys' = IF o.key # NULL THEN [keys EXCEPT ![o.key] = "live"] ELSE keys
    /\ pk_ctx' = IF o.install THEN [pk_ctx EXCEPT ![c] = o.key] ELSE pk_ctx
    /\ pk_info' = IF o.install THEN [pk_info EXCEPT ![c] = "atca_pk_info"] ELSE pk_info
    /\ call' = [op |-> "setup", ctx |-> c, in |-> [keyId |-> keyId, atca |-> atca], out |-> o]
    /\ UNCHANGED codecVars

\* mbedtls_atca_pk_setup(ctx, keyId), ctx being a context or NULL.
Setup ==
    \E c \in Contexts \cup {NULL}, keyId \in KeyIds, atca \in BOOLEAN :
        ApplySetup(c, keyId, atca, mbedtls_atca_pk_setup(c, keyId, atca, FreshKey))

\* mbedtls_pk_free(ctx): pk_info->ctx_free_func(pk_ctx), that is
\* atca_ctx_free, then the context is wiped.
Free ==
    \E c \in Contexts :
        /\ pk_info[c] = "atca_pk_info"
        /\ keys' = atca_ctx_free(keys, pk_ctx[c])
        /\ pk_ctx' = [pk_ctx EXCEPT ![c] = NULL]
        /\ pk_info' = [pk_info EXCEPT ![c] = "none"]
        /\ call' = [op |-> "free", ctx |-> c, in |-> [key |-> pk_ctx[c]], out |-> <<>>]
        /\ UNCHANGED codecVars

\* A context through which sign and verify can be called: it was set up
\* and holds a key that was not deleted.
Usable(c) ==
    /\ pk_info[c] = "atca_pk_info"
    /\ pk_ctx[c] # NULL
    /\ keys[pk_ctx[c]] = "live"

\* mbedtls_pk_sign through pk_info->sign_func.
Sign ==
    \E c \in Contexts, md_alg \in HashAlgs, err \in {ATCA_ERR_NO_ERROR, HolderFault},
       rw \in SampleRaws, alloc \in BOOLEAN :
        /\ Usable(c)
        /\ call' = [op |-> "sign", ctx |-> c,
                    in |-> [md_alg |-> md_alg, err |-> err, rs |-> rw.R \o rw.S,
                            alloc |-> alloc],
                    out |-> atca_sign_func(md_alg, err, rw.R \o rw.S, ATCA_ECC_SIG_LEN, alloc)]
        /\ UNCHANGED <<pk_ctx, pk_info, keys>>
        /\ UNCHANGED codecVars

\* mbedtls_pk_verify through pk_info->verify_func.
Verify ==
    \E c \in Contexts, md_alg \in HashAlgs, sig \in VerifyInputs, err \in HolderErrors,
       alloc \in BOOLEAN :
        /\ Usable(c)
        /\ call' = [op |-> "verify", ctx |-> c,
                    in |-> [md_alg |-> md_alg, sig |-> sig, err |-> err, alloc |-> alloc],
                    out |-> atca_verify_func(md_alg, sig, Len(sig), err, alloc)]
        /\ UNCHANGED <<pk_ctx, pk_info, keys>>
        /\ UNCHANGED codecVars

Next ==
    \/ Setup
    \/ Free
    \/ Sign
    \/ Verify

Spec == Init /\ [][Next]_vars

(***************************************************************************)
(* Properties of the codec, stated for SpecCodec.                          *)
(***************************************************************************)
\* C1: decoding the encoding of (R, S) with R_len = S_len = FieldLen
\* returns 0 and writes exactly R and S, right-aligned and zero-padded,
\* also when a half has its top bit set or starts with zero bytes.
C1_RoundTrip ==
    dkind = "exact" => /\ dout.ret = 0
                       /\ dout.R = raw.R
                       /\ dout.S = raw.S

\* A round trip where R has its top bit set (the encoding carries the
\* 0x00 octet in front of it) and S starts with a zero byte (a shorter
\* INTEGER field) without being zero.
C1_Witness ==
    /\ dkind = "exact"
    /\ raw.R[1] >= 128
    /\ enc[4] = FieldLen + 1
    /\ enc[5] = 0
    /\ raw.S[1] = 0
    /\ raw.S # Zeros(FieldLen)
    /\ Len(enc) < 2 + 2 * (2 + FieldLen + 1)
    /\ dout.ret = 0
    /\ dout.R = raw.R
    /\ dout.S = raw.S

\* C4 as stated: a valid encoding followed by extra bytes is refused with
\* MBEDTLS_ERR_ECP_SIG_LEN_MISMATCH.
C4_TrailingIsSigLenMismatch ==
    dkind = "trailing" => dout.ret = MBEDTLS_ERR_ECP_SIG_LEN_MISMATCH

\* C4 amended: a valid encoding followed by extra bytes is refused by the
\* outer length check, with MBEDTLS_ERR_ECP_BAD_INPUT_DATA +
\* MBEDTLS_ERR_ASN1_LENGTH_MISMATCH, before R or S is written; it is never
\* accepted.
C4_TrailingIsLengthMismatch ==
    dkind = "trailing" =>
        /\ dout.ret = MBEDTLS_ERR_ECP_BAD_INPUT_DATA + MBEDTLS_ERR_ASN1_LENGTH_MISMATCH
        /\ dout.ret # 0
        /\ dout.R = Unwritten
        /\ dout.S = Unwritten

\* A decode of a valid encoding with extra bytes after it.
C4_Witness ==
    /\ dkind = "trailing"
    /\ Len(darg) >= 1
    /\ din = enc \o darg
    /\ dout.ret = MBEDTLS_ERR_ECP_BAD_INPUT_DATA + MBEDTLS_ERR_ASN1_LENGTH_MISMATCH

\* What the decoder returns when the outer tag or length, the length
\* comparison or the parse of a field fails.
LengthOrFieldErrors ==
    { MBEDTLS_ERR_ECP_BAD_INPUT_DATA + e :
        e \in { MBEDTLS_ERR_ASN1_OUT_OF_DATA, MBEDTLS_ERR_ASN1_UNEXPECTED_TAG,
                MBEDTLS_ERR_ASN1_INVALID_LENGTH, MBEDTLS_ERR_ASN1_LENGTH_MISMATCH } }

\* C5: a valid encoding with its last k >= 1 bytes cut off is never
\* decoded with success; the result is one of the length or field errors.
C5_TruncatedRejected ==
    dkind = "truncated" => /\ dout.ret # 0
                           /\ dout.ret \in LengthOrFieldErrors

\* A decode of an encoding that lost only its last byte, and so still
\* starts with the whole outer header.
C5_Witness ==
    /\ dkind = "truncated"
    /\ darg = <<1>>
    /\ Len(din) = Len(enc) - 1
    /\ Len(din) >= 2
    /\ dout.ret \in LengthOrFieldErrors

\* A field whose magnitude needs more than FieldLen bytes: a non-zero
\* octet before its last FieldLen octets.
TooWide(f) == \E i \in 1..(Len(f) - FieldLen) : f[i] # 0

\* A field of FieldLen + 1 octets whose first octet is the sign octet.
SignPadded(f) == Len(f) = FieldLen + 1 /\ f[1] = 0

\* C10: a well-formed encoding in which R or S needs more than FieldLen
\* bytes is refused with MBEDTLS_ERR_ECP_BAD_INPUT_DATA +
\* MBEDTLS_ERR_MPI_BUFFER_TOO_SMALL; a field of FieldLen + 1 octets that
\* starts with 0x00 is accepted and written as its FieldLen-byte magnitude.
C10_OversizedRejected ==
    dkind = "wellformed" =>
        /\ (TooWide(darg[1]) \/ TooWide(darg[2])) =>
               dout.ret = MBEDTLS_ERR_ECP_BAD_INPUT_DATA + MBEDTLS_ERR_MPI_BUFFER_TOO_SMALL
        /\ (SignPadded(darg[1]) /\ ~TooWide(darg[2])) =>
               (dout.ret = 0 /\ dout.R = Tail(darg[1]))
        /\ (SignPadded(darg[2]) /\ ~TooWide(darg[1])) =>
               (dout.ret = 0 /\ dout.S = Tail(darg[2]))

\* A decode where R comes with its sign octet and is written, and S is one
\* byte too wide and is refused.
C10_Witness ==
    /\ dkind = "wellformed"
    /\ SignPadded(darg[1])
    /\ darg[1][2] >= 128
    /\ TooWide(darg[2])
    /\ dout.ret = MBEDTLS_ERR_ECP_BAD_INPUT_DATA + MBEDTLS_ERR_MPI_BUFFER_TOO_SMALL
    /\ dout.R = Tail(darg[1])
    /\ dout.S = Unwritten

(***************************************************************************)
(* Properties of the binding and of the adapter, stated for Spec.          *)
(***************************************************************************)
\* C2: setup returns 0 only when the key identifier resolved to a key: the
\* context it returned 0 for holds that live key, and no context that was
\* set up holds a null key.
C2_SetupBindsKey ==
    /\ (call.op = "setup" /\ call.out.ret = 0) =>
           /\ call.out.key # NULL
           /\ call.out.err = ATCA_ERR_NO_ERROR
           /\ pk_ctx[call.ctx] = call.out.key
           /\ keys[call.out.key] = "live"
    /\ \A c \in Contexts : pk_info[c] = "atca_pk_info" => pk_ctx[c] # NULL

\* The contexts that were set up and hold the key k.
Owners(k) == {c \in Contexts : pk_info[c] = "atca_pk_info" /\ pk_ctx[c] = k}

\* C3: every key object obtained from the key store and not yet deleted is
\* held by exactly one context; none is deleted twice, and none is held
\* after it was deleted.
C3_HandleOwnership ==
    \A k \in KeyObjects :
        /\ keys[k] = "live" => Cardinality(Owners(k)) = 1
        /\ keys[k] # "twice"
        /\ keys[k] = "deleted" => Owners(k) = {}

\* What the decoder returns for the signature of the last verify call.
DecodedInCall ==
    mbedtls_ecdsa_asn1_to_signature(call.in.sig, Len(call.in.sig), FieldLen, FieldLen,
                                    call.in.alloc)

\* C6: verify returns 0 only if the hash is SHA-256, the decoder returned 0
\* and the key holder's Verify succeeded on the decoded R || S; whenever
\* the decoder fails, verify fails and the key holder's Verify is not
\* called.
C6_VerifyAllOrNothing ==
    call.op = "verify" =>
        /\ call.out.ret = 0 =>
               /\ call.in.md_alg = MBEDTLS_MD_SHA256
               /\ DecodedInCall.ret = 0
               /\ call.in.err = ATCA_ERR_NO_ERROR
               /\ call.out.verifyCalls = 1
               /\ call.out.rsVerified = DecodedInCall.R \o DecodedInCall.S
               /\ Len(call.out.rsVerified) = ATCA_ECC_SIG_LEN
        /\ DecodedInCall.ret # 0 =>
               /\ call.out.ret # 0
               /\ call.out.verifyCalls = 0
               /\ call.out.rsVerified = Unwritten

\* A verify whose decoder failed on bytes left after S, with R and S
\* already written into rs, while the key holder would have accepted.
C6_Witness ==
    /\ call.op = "verify"
    /\ call.in.md_alg = MBEDTLS_MD_SHA256
    /\ call.in.err = ATCA_ERR_NO_ERROR
    /\ call.out.decodeCalls = 1
    /\ call.out.decodeRet = MBEDTLS_ERR_ECP_SIG_LEN_MISMATCH
    /\ Len(call.out.rs[1]) = FieldLen
    /\ Len(call.out.rs[2]) = FieldLen
    /\ call.out.ret = -1
    /\ call.out.verifyCalls = 0

\* C7: a sign or verify call with a hash algorithm other than SHA-256 fails
\* before the key holder's Sign or Verify, the decoder or the encoder is
\* called.
C7_HashGateFirst ==
    (call.op \in {"sign", "verify"} /\ call.in.md_alg # MBEDTLS_MD_SHA256) =>
        /\ call.out.ret = -1
        /\ call.out.signCalls = 0
        /\ call.out.verifyCalls = 0
        /\ call.out.decodeCalls = 0
        /\ call.out.encodeCalls = 0

\* A sign call with another hash algorithm, where the key holder would
\* have signed.
C7_Witness ==
    /\ call.op = "sign"
    /\ call.in.md_alg # MBEDTLS_MD_SHA256
    /\ call.in.err = ATCA_ERR_NO_ERROR
    /\ call.in.alloc
    /\ call.out.ret = -1
    /\ call.out.signCalls = 0

\* The interchange encoding of the raw signature rs = R || S.
InterchangeEncoding(rs) ==
    Asn1Sequence(
        Asn1Integer(IntegerContent(StripLeadingZeros(SubSeq(rs, 1, FieldLen))))
        \o Asn1Integer(IntegerContent(StripLeadingZeros(SubSeq(rs, FieldLen + 1, 2 * FieldLen)))))

\* C8: sign returns 0 only if the key holder's Sign succeeded and the
\* conversion of the returned (R, S) succeeded, sig and sig_len then
\* holding the encoding of (R, S); when the key holder fails, sign fails
\* after one call of it and without running the encoder.
C8_SignSwallowsNoError ==
    call.op = "sign" =>
        /\ call.out.ret = 0 =>
               /\ call.in.err = ATCA_ERR_NO_ERROR
               /\ call.out.encodeRet = 0
               /\ call.out.sig = InterchangeEncoding(call.in.rs)
               /\ call.out.sig_len = Len(call.out.sig)
        /\ call.in.err # ATCA_ERR_NO_ERROR =>
               /\ call.out.ret # 0
               /\ call.out.signCalls = 1
               /\ call.out.encodeCalls = 0

\* C9 as stated: a mismatch reported by the key holder is reported by
\* verify with a value that differs from the one of another error of the
\* key holder and from the one of a signature that does not decode.
C9_FailuresDistinct ==
    (/\ call.op = "verify"
     /\ call.in.md_alg = MBEDTLS_MD_SHA256
     /\ DecodedInCall.ret = 0
     /\ call.in.err = HolderMismatch) =>
        /\ call.out.ret # 0
        /\ call.out.ret #
               atca_verify_func(call.in.md_alg, call.in.sig, Len(call.in.sig), HolderFault,
                                call.in.alloc).ret
        /\ call.out.ret #
               atca_verify_func(call.in.md_alg, <<>>, 0, call.in.err, call.in.alloc).ret

\* C9 amended: when the decoder succeeded and the key holder's Verify
\* reports a mismatch or any other error, verify fails after one call of
\* it; every failure of verify is reported with the same value, -1.
C9_FailuresUniform ==
    call.op = "verify" =>
        /\ (/\ call.in.md_alg = MBEDTLS_MD_SHA256
            /\ DecodedInCall.ret = 0
            /\ call.in.err # ATCA_ERR_NO_ERROR) =>
               /\ call.out.ret = -1
               /\ call.out.verifyCalls = 1
        /\ call.out.ret # 0 => call.out.ret = -1

\* A verify of a signature that decodes, refused by the key holder as a
\* mismatch.
C9_Witness ==
    /\ call.op = "verify"
    /\ call.in.md_alg = MBEDTLS_MD_SHA256
    /\ call.out.decodeRet = 0
    /\ call.out.decodeCalls = 1
    /\ call.in.err = HolderMismatch
    /\ call.out.verifyCalls = 1
    /\ call.out.ret = -1

====
